---- MODULE Spec2Model ----
(***************************************************************************)
(* Model of the Jenkins pipeline Terraform provider:                       *)
(*   - the configuration codec (buildPipelineConfigXML and the two         *)
(*     extractors) of resource_jenkins_pipeline.go,                        *)
(*   - the resource lifecycle handlers Create / Read / Update / Delete /   *)
(*     ImportState, stepped at their remote calls,                         *)
(*   - the data-source Read of datasource_jenkins_pipeline.go.             *)
(* Go strings are modelled as sequences of one-character strings, so that  *)
(* substring search and slicing are computed as the code computes them.    *)
(***************************************************************************)
EXTENDS Integers, Sequences, FiniteSets, TLC

VARIABLES
  jobs,     \* the remote server: job name -> NoJob or the job it holds
  state,    \* per resource instance: the record held in the response state
  inv,      \* per resource instance: the handler invocation in progress or last finished
  dsInv,    \* the data-source Read invocation in progress or last finished
  dsState,  \* the result written by the data-source Read
  now,      \* the clock read by time.Now()
  ops,      \* number of handler invocations started so far
  oob,      \* number of out-of-band changes made on the server so far
  codec     \* the codec harness: inputs, document and extractor results

vars == << jobs, state, inv, dsInv, dsState, now, ops, oob, codec >>

(***************************************************************************)
(* Bounds                                                                  *)
(***************************************************************************)
\* longest description / script of the codec harness, counted in fragments
MaxFrags == 2
\* longest document handed to the extractors alone, counted in fragments
MaxDocFrags == 3
\* handler invocations started in one behaviour
MaxOps == 3
\* out-of-band changes made on the server in one behaviour
MaxOOB == 1
\* seconds the clock runs
MaxTime == 1

\* The result and the duration (ms) the server reports for a completed build.
BuildResult == << "S", "U", "C", "C", "E", "S", "S" >>
BuildDuration == 5

(***************************************************************************)
(* The configuration codec                                                 *)
(***************************************************************************)
\* The three literal parts of the fmt.Sprintf template, split at its two %s.
TemplateHead ==
  <<
    "<", "?", "x", "m", "l", " ", "v", "e", "r", "s", "i", "o", "n", "=", "'", "1", ".", "1",
    "'", " ", "e", "n", "c", "o", "d", "i", "n", "g", "=", "'", "U", "T", "F", "-", "8", "'",
    "?", ">", "\n", "<", "f", "l", "o", "w", "-", "d", "e", "f", "i", "n", "i", "t", "i", "o",
    "n", " ", "p", "l", "u", "g", "i", "n", "=", "\"", "w", "o", "r", "k", "f", "l", "o", "w",
    "-", "j", "o", "b", "@", "1", "2", "5", "4", ".", "v", "3", "f", "6", "6", "9", "a", "_",
    "b", "_", "a", "_", "0", "8", "3", "a", "_", "\"", ">", "\n", " ", " ", "<", "d", "e", "s",
    "c", "r", "i", "p", "t", "i", "o", "n", ">" >>

TemplateMid ==
  <<
    "<", "/", "d", "e", "s", "c", "r", "i", "p", "t", "i", "o", "n", ">", "\n", " ", " ", "<",
    "k", "e", "e", "p", "D", "e", "p", "e", "n", "d", "e", "n", "c", "i", "e", "s", ">", "f",
    "a", "l", "s", "e", "<", "/", "k", "e", "e", "p", "D", "e", "p", "e", "n", "d", "e", "n",
    "c", "i", "e", "s", ">", "\n", " ", " ", "<", "p", "r", "o", "p", "e", "r", "t", "i", "e",
    "s", "/", ">", "\n", " ", " ", "<", "d", "e", "f", "i", "n", "i", "t", "i", "o", "n", " ",
    "c", "l", "a", "s", "s", "=", "\"", "o", "r", "g", ".", "j", "e", "n", "k", "i", "n", "s",
    "c", "i", ".", "p", "l", "u", "g", "i", "n", "s", ".", "w", "o", "r", "k", "f", "l", "o",
    "w", ".", "c", "p", "s", ".", "C", "p", "s", "F", "l", "o", "w", "D", "e", "f", "i", "n",
    "i", "t", "i", "o", "n", "\"", " ", "p", "l", "u", "g", "i", "n", "=", "\"", "w", "o", "r",
    "k", "f", "l", "o", "w", "-", "c", "p", "s", "@", "2", "8", "0", "7", ".", "v", "3", "9",
    "e", "1", "5", "0", "3", "c", "7", "7", "9", "e", "\"", ">", "\n", " ", " ", " ", " ", "<",
    "s", "c", "r", "i", "p", "t", ">", "<", "!", "[", "C", "D", "A", "T", "A", "[" >>

TemplateTail ==
  <<
    "]", "]", ">", "<", "/", "s", "c", "r", "i", "p", "t", ">", "\n", " ", " ", " ", " ", "<",
    "s", "a", "n", "d", "b", "o", "x", ">", "t", "r", "u", "e", "<", "/", "s", "a", "n", "d",
    "b", "o", "x", ">", "\n", " ", " ", "<", "/", "d", "e", "f", "i", "n", "i", "t", "i", "o",
    "n", ">", "\n", " ", " ", "<", "t", "r", "i", "g", "g", "e", "r", "s", "/", ">", "\n", " ",
    " ", "<", "d", "i", "s", "a", "b", "l", "e", "d", ">", "f", "a", "l", "s", "e", "<", "/",
    "d", "i", "s", "a", "b", "l", "e", "d", ">", "\n", "<", "/", "f", "l", "o", "w", "-", "d",
    "e", "f", "i", "n", "i", "t", "i", "o", "n", ">" >>

scriptStart ==
  <<
    "<", "s", "c", "r", "i", "p", "t", ">", "<", "!", "[", "C", "D", "A", "T", "A", "[" >>

scriptEnd ==
  <<
    "]", "]", ">", "<", "/", "s", "c", "r", "i", "p", "t", ">" >>

descStart ==
  <<
    "<", "d", "e", "s", "c", "r", "i", "p", "t", "i", "o", "n", ">" >>

descEnd ==
  <<
    "<", "/", "d", "e", "s", "c", "r", "i", "p", "t", "i", "o", "n", ">" >>

\* strings.Index(s, substr): 0-based index of the first occurrence, or -1.
Index(s, substr) ==
  LET occ == { i \in 0..(Len(s) - Len(substr)) : SubSeq(s, i + 1, i + Len(substr)) = substr }
  IN  IF occ = {} THEN -1 ELSE CHOOSE i \in occ : \A j \in occ : i <= j

\* The Go slice expression s[lo:hi].
Slice(s, lo, hi) == SubSeq(s, lo + 1, hi)

\* A Go (string, error) result; err = "nil" when there is no error.
Ok(v) == [val |-> v, err |-> "nil"]
Err(msg) == [val |-> << >>, err |-> msg]

buildPipelineConfigXML(description, groovyScript) ==
  TemplateHead \o description \o TemplateMid \o groovyScript \o TemplateTail

\* A script extractor that looks for the end delimiter from the start of the
\* document instead of from the end of the start delimiter.
extractGroovyScriptSearchingFromStart(xmlConfig) ==
  LET found == Index(xmlConfig, scriptStart) IN
  IF found = -1
    THEN Err("could not find start of Groovy script tag in XML")
    ELSE LET startIndex == found + Len(scriptStart)
             endIndex == Index(xmlConfig, scriptEnd)
         IN  IF endIndex = -1
               THEN Err("could not find end of Groovy script tag in XML")
               ELSE Ok(Slice(xmlConfig, startIndex, endIndex))

extractGroovyScriptFromXML(xmlConfig) ==
  LET found == Index(xmlConfig, scriptStart) IN
  IF found = -1
    THEN Err("could not find start of Groovy script tag in XML")
    ELSE LET startIndex == found + Len(scriptStart)
             rel == Index(Slice(xmlConfig, startIndex, Len(xmlConfig)), scriptEnd)
         IN  IF rel = -1
               THEN Err("could not find end of Groovy script tag in XML")
               ELSE Ok(Slice(xmlConfig, startIndex, rel + startIndex))

extractDescriptionFromXML(xmlConfig) ==
  LET found == Index(xmlConfig, descStart) IN
  IF found = -1
    THEN Err("could not find start of description tag in XML")
    ELSE LET startIndex == found + Len(descStart)
             rel == Index(Slice(xmlConfig, startIndex, Len(xmlConfig)), descEnd)
         IN  IF rel = -1
               THEN Err("could not find end of description tag in XML")
               ELSE Ok(Slice(xmlConfig, startIndex, rel + startIndex))

\* TRUE iff substr occurs in s (strings.Contains).
Contains(s, substr) == Index(s, substr) # -1

(***************************************************************************)
(* Values                                                                  *)
(***************************************************************************)
\* A null (or unknown) types.String; no Go string is a one-element sequence
\* holding a several-character element, so Null differs from every string.
Null == << "(null)" >>

\* types.String.ValueString(): the empty string for a null or unknown value.
ValueString(v) == IF v = Null THEN << >> ELSE v

\* time.Now().Format(time.RFC3339) of the clock value t, as one opaque token.
RFC3339(t) == << ToString(t) >>

\* Job names, descriptions and scripts the host and the server's other users supply.
Names == { << "a" >>, << "b" >> }
Descriptions == { << >>, << "d" >> }
Scripts == { << "s", "h" >>, << "l", "s" >> }

\* The resource instances the host manages.
Insts == { 1, 2 }

\* jenkinsPipelineResourceModel with every attribute null: no record is held.
NoRecord ==
  [ id |-> Null, name |-> Null, description |-> Null, groovy_script |-> Null,
    last_updated |-> Null ]

\* The plan (desired state) handed to Create and Update.
NoPlan == [ name |-> Null, description |-> Null, groovy_script |-> Null ]
Plans ==
  [ name : Names, description : (Descriptions \ { << >> }) \cup { Null },
    groovy_script : Scripts ]

\* diag.Diagnostics: AddError appends an error-severity diagnostic.
AddError(diags, summary) == Append(diags, [ severity |-> "error", summary |-> summary ])
HasError(diags) == \E k \in 1..Len(diags) : diags[k].severity = "error"
HasSummary(diags, summary) == \E k \in 1..Len(diags) : diags[k].summary = summary

(***************************************************************************)
(* The remote server, as seen through the gojenkins client.  Every call    *)
(* may fail in transport; a call on an absent job fails with a 404.        *)
(***************************************************************************)
NoJob ==
  [ name |-> Null, description |-> Null, config |-> Null,
    buildNumber |-> 0, buildResult |-> << >>, buildDuration |-> 0 ]

\* Configuration documents other users of the server give a job: a job with a
\* description section and no script section, and one with neither.
DocNoScript == descStart \o << "d" >> \o descEnd
DocNoSections == << "<", "p", "/", ">" >>
ForeignDocs == { DocNoScript, DocNoSections }

\* The description the server reports for a job configured with a document:
\* the text of the document's description element, empty when it has none.
ReportedDescription(config) == extractDescriptionFromXML(config).val

\* A remote call as recorded for the invocation that made it.
Call(op, name, err) == [ op |-> op, name |-> name, err |-> err ]

\* The job the server holds under a name; none under a name it does not know.
JobAt(n) == IF n \in DOMAIN jobs THEN jobs[n] ELSE NoJob

JobExistsResults(n) ==
  { [ err |-> "nil", exists |-> (JobAt(n) # NoJob) ],
    [ err |-> "transport", exists |-> FALSE ] }

CreateJobResults(config, n) ==
  { [ err |-> "transport", jobs |-> jobs ] } \cup
  ( IF JobAt(n) # NoJob
      THEN { [ err |-> "400", jobs |-> jobs ] }
      ELSE { [ err |-> "nil",
               jobs |-> [ jobs EXCEPT ![n] =
                            [ NoJob EXCEPT !.name = n, !.config = config,
                                           !.description = ReportedDescription(config) ] ] ] } )

GetJobResults(n) ==
  { [ err |-> "transport", job |-> NoJob ] } \cup
  ( IF JobAt(n) = NoJob
      THEN { [ err |-> "404", job |-> NoJob ] }
      ELSE { [ err |-> "nil", job |-> JobAt(n) ] } )

GetJobConfigResults(n) ==
  { [ err |-> "transport", config |-> << >> ] } \cup
  ( IF JobAt(n) = NoJob
      THEN { [ err |-> "404", config |-> << >> ] }
      ELSE { [ err |-> "nil", config |-> JobAt(n).config ] } )

UpdateJobResults(n, config) ==
  { [ err |-> "transport", jobs |-> jobs ] } \cup
  ( IF JobAt(n) = NoJob
      THEN { [ err |-> "404", jobs |-> jobs ] }
      ELSE { [ err |-> "nil",
               jobs |-> [ jobs EXCEPT ![n].config = config,
                                      ![n].description = ReportedDescription(config) ] ] } )

DeleteJobResults(n) ==
  { [ err |-> "transport", jobs |-> jobs ] } \cup
  ( IF JobAt(n) = NoJob
      THEN { [ err |-> "404", jobs |-> jobs ] }
      ELSE { [ err |-> "nil", jobs |-> [ jobs EXCEPT ![n] = NoJob ] ] } )

GetLastCompletedBuildResults(n) ==
  { [ err |-> "transport", result |-> << >>, duration |-> 0 ] } \cup
  ( IF JobAt(n) = NoJob \/ JobAt(n).buildNumber = 0
      THEN { [ err |-> "404", result |-> << >>, duration |-> 0 ] }
      ELSE { [ err |-> "nil", result |-> JobAt(n).buildResult,
               duration |-> JobAt(n).buildDuration ] } )

(***************************************************************************)
(* Invocations of the resource handlers                                    *)
(***************************************************************************)
\* No invocation yet.  prior is req.State, plan is req.Plan, diags is
\* resp.Diagnostics, calls are the remote calls made so far, removed tells
\* that resp.State.RemoveResource was called; jobName, configXML, exists and
\* job are the handler's local variables of these names.
IdleInv ==
  [ op |-> "none", pc |-> "idle", plan |-> NoPlan, prior |-> NoRecord, jobName |-> Null,
    configXML |-> Null, exists |-> FALSE, job |-> NoJob, removed |-> FALSE,
    diags |-> << >>, calls |-> << >> ]

\* The host serialises the operations on one resource instance.
Ready(i) == inv[i].pc = "idle"

\* The invocation a handler starts with: req.Plan, req.State and the job name.
Begin(op, plan, prior, jobName, configXML) ==
  [ IdleInv EXCEPT !.op = op, !.pc = "start", !.plan = plan, !.prior = prior,
                   !.jobName = jobName, !.configXML = configXML ]

\* The invocation c after one more remote call.
Called(c, op, err) == [ c EXCEPT !.calls = Append(@, Call(op, c.jobName, err)) ]

\* The invocation c after the existence check answered res.
Checked(c, res) == [ Called(c, "JobExists", res.err) EXCEPT !.exists = res.exists ]

\* The invocation c ended, with one more error diagnostic.
Failed(c, summary) == [ c EXCEPT !.pc = "done", !.diags = AddError(@, summary) ]

\* The invocation c ended without a further diagnostic.
Returned(c) == [ c EXCEPT !.pc = "done" ]

(************************** Create *****************************************)
\* Create without its guard: the answer of the existence check is ignored.
CreateCheckNoGuard(c, res) ==
  IF res.err # "nil" THEN Failed(c, "Client Error")
  ELSE [ c EXCEPT !.pc = "CreateJob" ]

\* Create after the existence check answered res.
CreateCheck(c, res) ==
  IF res.err # "nil" THEN Failed(c, "Client Error")
  ELSE IF res.exists THEN Failed(c, "Job Already Exists")
  ELSE [ c EXCEPT !.pc = "CreateJob" ]

\* A Create that takes the server's rejection of an existing name for success.
CreateCreatedToleratesConflict(c, res) ==
  IF res.err \notin { "nil", "400" } THEN Failed(c, "Jenkins Job Creation Error")
  ELSE [ c EXCEPT !.pc = "GetJob" ]

\* A Create that reads the job back whether CreateJob failed or not.
CreateCreatedIgnoresError(c, res) == [ c EXCEPT !.pc = "GetJob" ]

\* Create after CreateJob answered res.
CreateCreated(c, res) ==
  IF res.err # "nil" THEN Failed(c, "Jenkins Job Creation Error")
  ELSE [ c EXCEPT !.pc = "GetJob" ]

\* The record of a Create that takes the description from the plan.
CreateRecordFromPlan(plan, job, t) ==
  [ id |-> job.name, name |-> job.name, description |-> ValueString(plan.description),
    groovy_script |-> ValueString(plan.groovy_script), last_updated |-> RFC3339(t) ]

\* The record Create writes from the plan and the job read back, at time t.
CreateRecord(plan, job, t) ==
  [ id |-> job.name, name |-> job.name, description |-> job.description,
    groovy_script |-> ValueString(plan.groovy_script), last_updated |-> RFC3339(t) ]

\* A Create that writes the record from the plan when the read-back failed.
CreateReadBackKeepsRecord(c, st, res, t) ==
  IF res.err # "nil"
    THEN [ inv |-> Failed(c, "Jenkins Job Read Error"),
           state |-> [ CreateRecord(c.plan, res.job, t) EXCEPT !.id = c.jobName ] ]
    ELSE [ inv |-> Returned([ c EXCEPT !.job = res.job ]),
           state |-> CreateRecord(c.plan, res.job, t) ]

\* Create after the read-back GetJob answered res: the invocation and the
\* response state, st being the response state so far.
CreateReadBack(c, st, res, t) ==
  IF res.err # "nil"
    THEN [ inv |-> Failed(c, "Jenkins Job Read Error"), state |-> st ]
    ELSE [ inv |-> Returned([ c EXCEPT !.job = res.job ]),
           state |-> CreateRecord(c.plan, res.job, t) ]

(************************** Read *******************************************)
\* A Read that looks the job up by the record's name.
ReadJobNameFromName(st) == ValueString(st.name)

\* The job Read looks up: the id of the record, not its name.
ReadJobName(st) == ValueString(st.id)

\* A Read that reports an absent job as an error and keeps the record.
ReadCheckAbsentIsError(c, st, res) ==
  IF res.err # "nil"
    THEN [ inv |-> Failed(c, "Client Error"), state |-> st ]
  ELSE IF ~res.exists
    THEN [ inv |-> Failed(c, "Jenkins Job Not Found"), state |-> st ]
  ELSE [ inv |-> [ c EXCEPT !.pc = "GetJobConfig" ], state |-> st ]

\* Read after the existence check answered res.
ReadCheck(c, st, res) ==
  IF res.err # "nil"
    THEN [ inv |-> Failed(c, "Client Error"), state |-> st ]
  ELSE IF ~res.exists
    THEN [ inv |-> Returned([ c EXCEPT !.removed = TRUE ]), state |-> NoRecord ]
  ELSE [ inv |-> [ c EXCEPT !.pc = "GetJobConfig" ], state |-> st ]

\* The diagnostics after the two extractions.
ExtractionDiags(diags, script, description) ==
  LET d1 == IF script.err # "nil"
              THEN AddError(diags, "Groovy Script Extraction Error") ELSE diags
  IN  IF description.err # "nil" THEN AddError(d1, "Description Extraction Error") ELSE d1

\* The record of a Read that leaves the name as it was.
ReadRecordKeepsName(prior, jobName, script, description, t) ==
  [ prior EXCEPT !.description = description.val, !.groovy_script = script.val,
                 !.last_updated = RFC3339(t) ]

\* The record Read writes over the prior state, at time t.
ReadRecord(prior, jobName, script, description, t) ==
  [ prior EXCEPT !.name = jobName, !.description = description.val,
                 !.groovy_script = script.val, !.last_updated = RFC3339(t) ]

\* A Read that removes the record when GetJobConfig finds no such job.
ReadConfigRemovesOnNotFound(c, st, res, t) ==
  IF res.err = "404"
    THEN [ inv |-> Returned([ c EXCEPT !.removed = TRUE ]), state |-> NoRecord ]
  ELSE IF res.err # "nil"
    THEN [ inv |-> Failed(c, "Jenkins Job Config Read Error"), state |-> st ]
    ELSE LET script == extractGroovyScriptFromXML(res.config)
             description == extractDescriptionFromXML(res.config)
         IN  [ inv |-> Returned([ c EXCEPT !.configXML = res.config,
                                           !.diags = ExtractionDiags(@, script, description) ]),
               state |-> ReadRecord(c.prior, c.jobName, script, description, t) ]

\* A Read that returns at the first extraction error, before writing the record.
ReadConfigAbortOnParseError(c, st, res, t) ==
  IF res.err # "nil"
    THEN [ inv |-> Failed(c, "Jenkins Job Config Read Error"), state |-> st ]
    ELSE LET script == extractGroovyScriptFromXML(res.config)
             description == extractDescriptionFromXML(res.config)
             e == [ c EXCEPT !.configXML = res.config,
                             !.diags = ExtractionDiags(@, script, description) ]
         IN  IF script.err # "nil" \/ description.err # "nil"
               THEN [ inv |-> Returned(e), state |-> st ]
               ELSE [ inv |-> Returned(e),
                      state |-> ReadRecord(c.prior, c.jobName, script, description, t) ]

\* Read after GetJobConfig answered res.
ReadConfig(c, st, res, t) ==
  IF res.err # "nil"
    THEN [ inv |-> Failed(c, "Jenkins Job Config Read Error"), state |-> st ]
    ELSE LET script == extractGroovyScriptFromXML(res.config)
             description == extractDescriptionFromXML(res.config)
         IN  [ inv |-> Returned([ c EXCEPT !.configXML = res.config,
                                           !.diags = ExtractionDiags(@, script, description) ]),
               state |-> ReadRecord(c.prior, c.jobName, script, description, t) ]

(************************** Update *****************************************)
\* An Update that addresses the job by the plan's name.
UpdateJobNameFromPlan(plan, st) == ValueString(plan.name)

\* The job Update addresses: the id of the prior state, whatever the plan's name.
UpdateJobName(plan, st) == ValueString(st.id)

\* Update after UpdateJob answered res.
UpdateUpdated(c, res) ==
  IF res.err # "nil" THEN Failed(c, "Jenkins Job Update Error")
  ELSE [ c EXCEPT !.pc = "GetJob" ]

\* The record of an Update that takes the description from the plan.
UpdateRecordFromPlan(prior, plan, job, t) ==
  [ prior EXCEPT !.description = ValueString(plan.description),
                 !.groovy_script = ValueString(plan.groovy_script),
                 !.last_updated = RFC3339(t) ]

\* The record Update writes over the prior state, at time t.
UpdateRecord(prior, plan, job, t) ==
  [ prior EXCEPT !.description = job.description,
                 !.groovy_script = ValueString(plan.groovy_script),
                 !.last_updated = RFC3339(t) ]

\* An Update that writes the record although the read-back failed.
UpdateReadBackAlwaysWrites(c, st, res, t) ==
  IF res.err # "nil"
    THEN [ inv |-> Failed(c, "Jenkins Job Read Error After Update"),
           state |-> UpdateRecord(c.prior, c.plan, res.job, t) ]
    ELSE [ inv |-> Returned([ c EXCEPT !.job = res.job ]),
           state |-> UpdateRecord(c.prior, c.plan, res.job, t) ]

\* Update after the read-back GetJob answered res.
UpdateReadBack(c, st, res, t) ==
  IF res.err # "nil"
    THEN [ inv |-> Failed(c, "Jenkins Job Read Error After Update"), state |-> st ]
    ELSE [ inv |-> Returned([ c EXCEPT !.job = res.job ]),
           state |-> UpdateRecord(c.prior, c.plan, res.job, t) ]

(************************** Delete *****************************************)
\* A Delete that calls DeleteJob whatever the existence check answered.
DeleteCheckAlwaysDeletes(c, res) ==
  IF res.err # "nil" THEN Failed(c, "Client Error")
  ELSE [ c EXCEPT !.pc = "DeleteJob" ]

\* Delete after the existence check answered res.
DeleteCheck(c, res) ==
  IF res.err # "nil" THEN Failed(c, "Client Error")
  ELSE IF ~res.exists THEN Returned(c)
  ELSE [ c EXCEPT !.pc = "DeleteJob" ]

\* A Delete that takes a job not found by DeleteJob for deleted.
DeleteDeletedIgnoresNotFound(c, res) ==
  IF res.err \notin { "nil", "404" } THEN Failed(c, "Jenkins Job Deletion Error")
  ELSE Returned(c)

\* Delete after DeleteJob answered res.
DeleteDeleted(c, res) ==
  IF res.err # "nil" THEN Failed(c, "Jenkins Job Deletion Error") ELSE Returned(c)

\* A Delete after which the record is dropped whether it failed or not.
AfterDeleteAlways(c, st) == IF c.pc = "done" THEN NoRecord ELSE st

\* The state the host keeps after Delete returned: the record is dropped when
\* no error diagnostic was added.
AfterDelete(c, st) == IF c.pc = "done" /\ ~HasError(c.diags) THEN NoRecord ELSE st

(************************** data-source Read *******************************)
\* jenkinsPipelineDataSourceModel with every attribute null: nothing written.
NoResult ==
  [ id |-> Null, name |-> Null, description |-> Null, groovy_script |-> Null,
    last_build_status |-> Null, last_build_duration |-> 0 ]

\* The configurations the host hands to the data source: id and name are
\* each either set or null.
DSConfigs == [ id : Names \cup { Null }, name : Names \cup { Null } ]

IdleDSInv ==
  [ pc |-> "idle", config |-> [ id |-> Null, name |-> Null ], jobName |-> Null,
    job |-> NoJob, script |-> Ok(<< >>), description |-> Ok(<< >>), diags |-> << >>,
    calls |-> << >> ]

DSReady == dsInv.pc = "idle"

\* A lookup key that prefers the name to the id.
DSJobNamePrefersName(config) ==
  IF config.name # Null THEN ValueString(config.name)
  ELSE IF config.id # Null THEN ValueString(config.id)
  ELSE Null

\* A lookup key that falls back to the name without asking whether it is set.
DSJobNameUnchecked(config) ==
  IF config.id # Null THEN ValueString(config.id) ELSE ValueString(config.name)

\* The lookup key: id when set, else name when set, else none (Null).
DSJobName(config) ==
  IF config.id # Null THEN ValueString(config.id)
  ELSE IF config.name # Null THEN ValueString(config.name)
  ELSE Null

\* A data-source Read that returns silently when the job is not found.
DSGotJobSilent(c, res) ==
  IF res.err = "404" THEN Returned(c)
  ELSE IF res.err # "nil" THEN Failed(c, "Jenkins Job Read Error")
  ELSE [ c EXCEPT !.pc = "GetConfig", !.job = res.job ]

\* The data-source Read after GetJob answered res.
DSGotJob(c, res) ==
  IF res.err = "404" THEN Failed(c, "Jenkins Job Not Found")
  ELSE IF res.err # "nil" THEN Failed(c, "Jenkins Job Read Error")
  ELSE [ c EXCEPT !.pc = "GetConfig", !.job = res.job ]

\* The result the data-source Read writes.
DSResult(c, status, duration) ==
  [ id |-> c.job.name, name |-> c.job.name, description |-> c.description.val,
    groovy_script |-> c.script.val, last_build_status |-> status,
    last_build_duration |-> duration ]

\* The data-source Read after job.GetConfig answered res, ds being the
\* response state so far.
DSGotConfig(c, ds, res) ==
  IF res.err # "nil"
    THEN [ inv |-> Failed(c, "Jenkins Job Config Read Error"), state |-> ds ]
    ELSE LET script == extractGroovyScriptFromXML(res.config)
             description == extractDescriptionFromXML(res.config)
             e == [ c EXCEPT !.script = script, !.description = description,
                             !.diags = ExtractionDiags(@, script, description) ]
         IN  IF c.job.buildNumber > 0
               THEN [ inv |-> [ e EXCEPT !.pc = "GetLastCompletedBuild" ], state |-> ds ]
               ELSE [ inv |-> Returned(e), state |-> DSResult(e, << >>, 0) ]

\* A data-source Read that fails when the last build cannot be fetched.
DSGotBuildStrict(c, res) ==
  IF res.err = "nil"
    THEN [ inv |-> Returned(c), state |-> DSResult(c, res.result, res.duration) ]
    ELSE [ inv |-> Failed(c, "Jenkins Build Read Error"), state |-> NoResult ]

\* The data-source Read after job.GetLastCompletedBuild answered res.
DSGotBuild(c, res) ==
  IF res.err = "nil"
    THEN [ inv |-> Returned(c), state |-> DSResult(c, res.result, res.duration) ]
    ELSE [ inv |-> Returned(c), state |-> DSResult(c, << >>, 0) ]

(***************************************************************************)
(* The codec harness: a description and a script, the document built from  *)
(* them and what the two extractors return on that document.               *)
(***************************************************************************)
Fragments == { << "x" >>, << "]" >>, scriptStart, scriptEnd, descStart, descEnd }

\* The strings made of at most n fragments.
RECURSIVE FragmentStrings(_)
FragmentStrings(n) ==
  IF n = 0 THEN { << >> }
  ELSE LET shorter == FragmentStrings(n - 1)
       IN  shorter \cup { s \o f : s \in shorter, f \in Fragments }

IdleCodec ==
  [ phase |-> "idle", description |-> << >>, groovyScript |-> << >>, xml |-> << >>,
    script |-> Ok(<< >>), desc |-> Ok(<< >>) ]

CodecBuild ==
  /\ codec.phase = "input"
  /\ codec' = [ codec EXCEPT !.phase = "built",
                  !.xml = buildPipelineConfigXML(codec.description, codec.groovyScript) ]
  /\ UNCHANGED << jobs, state, inv, dsInv, dsState, now, ops, oob >>

CodecExtract ==
  /\ codec.phase = "built"
  /\ codec' = [ codec EXCEPT !.phase = "extracted",
                  !.script = extractGroovyScriptFromXML(codec.xml),
                  !.desc = extractDescriptionFromXML(codec.xml) ]
  /\ UNCHANGED << jobs, state, inv, dsInv, dsState, now, ops, oob >>

(***************************************************************************)
(* Actions of the resource handlers, one per remote call                   *)
(***************************************************************************)
\* Create, up to and including the existence check.
Create(i, plan) ==
  /\ Ready(i) /\ state[i] = NoRecord /\ ops < MaxOps
  /\ LET jobName == ValueString(plan.name)
         configXML == buildPipelineConfigXML(ValueString(plan.description),
                                             ValueString(plan.groovy_script))
         c == Begin("Create", plan, NoRecord, jobName, configXML)
     IN  \E res \in JobExistsResults(jobName) :
           inv' = [ inv EXCEPT ![i] = CreateCheck(Checked(c, res), res) ]
  /\ ops' = ops + 1
  /\ UNCHANGED << jobs, state, dsInv, dsState, now, oob, codec >>

\* Create: the CreateJob call.
CreateCreateJob(i) ==
  /\ inv[i].op = "Create" /\ inv[i].pc = "CreateJob"
  /\ \E res \in CreateJobResults(inv[i].configXML, inv[i].jobName) :
       /\ inv' = [ inv EXCEPT ![i] = CreateCreated(Called(@, "CreateJob", res.err), res) ]
       /\ jobs' = res.jobs
  /\ UNCHANGED << state, dsInv, dsState, now, ops, oob, codec >>

\* Create: the read-back GetJob call and the write of the record.
CreateGetJob(i) ==
  /\ inv[i].op = "Create" /\ inv[i].pc = "GetJob"
  /\ \E res \in GetJobResults(inv[i].jobName), t \in now..MaxTime :
       LET out == CreateReadBack(Called(inv[i], "GetJob", res.err), state[i], res, t)
       IN  /\ inv' = [ inv EXCEPT ![i] = out.inv ]
           /\ state' = [ state EXCEPT ![i] = out.state ]
           /\ now' = t
  /\ UNCHANGED << jobs, dsInv, dsState, ops, oob, codec >>

\* Read, up to and including the existence check.
Read(i) ==
  /\ Ready(i) /\ state[i] # NoRecord /\ ops < MaxOps
  /\ LET jobName == ReadJobName(state[i])
         c == Begin("Read", NoPlan, state[i], jobName, Null)
     IN  \E res \in JobExistsResults(jobName) :
           LET out == ReadCheck(Checked(c, res), state[i], res)
           IN  /\ inv' = [ inv EXCEPT ![i] = out.inv ]
               /\ state' = [ state EXCEPT ![i] = out.state ]
  /\ ops' = ops + 1
  /\ UNCHANGED << jobs, dsInv, dsState, now, oob, codec >>

\* Read: the GetJobConfig call, the extractions and the write of the record.
ReadGetJobConfig(i) ==
  /\ inv[i].op = "Read" /\ inv[i].pc = "GetJobConfig"
  /\ \E res \in GetJobConfigResults(inv[i].jobName), t \in now..MaxTime :
       LET out == ReadConfig(Called(inv[i], "GetJobConfig", res.err), state[i], res, t)
       IN  /\ inv' = [ inv EXCEPT ![i] = out.inv ]
           /\ state' = [ state EXCEPT ![i] = out.state ]
           /\ now' = t
  /\ UNCHANGED << jobs, dsInv, dsState, ops, oob, codec >>

\* Update, up to and including the UpdateJob call.
Update(i, plan) ==
  /\ Ready(i) /\ state[i] # NoRecord /\ ops < MaxOps
  /\ LET jobName == UpdateJobName(plan, state[i])
         updatedConfigXML == buildPipelineConfigXML(ValueString(plan.description),
                                                    ValueString(plan.groovy_script))
         c == Begin("Update", plan, state[i], jobName, updatedConfigXML)
     IN  \E res \in UpdateJobResults(jobName, updatedConfigXML) :
           /\ inv' = [ inv EXCEPT ![i] = UpdateUpdated(Called(c, "UpdateJob", res.err), res) ]
           /\ jobs' = res.jobs
  /\ ops' = ops + 1
  /\ UNCHANGED << state, dsInv, dsState, now, oob, codec >>

\* Update: the read-back GetJob call and the write of the record.
UpdateGetJob(i) ==
  /\ inv[i].op = "Update" /\ inv[i].pc = "GetJob"
  /\ \E res \in GetJobResults(inv[i].jobName), t \in now..MaxTime :
       LET out == UpdateReadBack(Called(inv[i], "GetJob", res.err), state[i], res, t)
       IN  /\ inv' = [ inv EXCEPT ![i] = out.inv ]
           /\ state' = [ state EXCEPT ![i] = out.state ]
           /\ now' = t
  /\ UNCHANGED << jobs, dsInv, dsState, ops, oob, codec >>

\* Delete, up to and including the existence check.
Delete(i) ==
  /\ Ready(i) /\ state[i] # NoRecord /\ ops < MaxOps
  /\ LET jobName == ValueString(state[i].id)
         c == Begin("Delete", NoPlan, state[i], jobName, Null)
     IN  \E res \in JobExistsResults(jobName) :
           LET d == DeleteCheck(Checked(c, res), res)
           IN  /\ inv' = [ inv EXCEPT ![i] = d ]
               /\ state' = [ state EXCEPT ![i] = AfterDelete(d, @) ]
  /\ ops' = ops + 1
  /\ UNCHANGED << jobs, dsInv, dsState, now, oob, codec >>

\* Delete: the DeleteJob call.
DeleteDeleteJob(i) ==
  /\ inv[i].op = "Delete" /\ inv[i].pc = "DeleteJob"
  /\ \E res \in DeleteJobResults(inv[i].jobName) :
       LET d == DeleteDeleted(Called(inv[i], "DeleteJob", res.err), res)
       IN  /\ inv' = [ inv EXCEPT ![i] = d ]
           /\ state' = [ state EXCEPT ![i] = AfterDelete(d, @) ]
           /\ jobs' = res.jobs
  /\ UNCHANGED << dsInv, dsState, now, ops, oob, codec >>

\* The record of an import that also fills in the name.
ImportRecordWithName(id) == [ NoRecord EXCEPT !.id = id, !.name = id ]

\* The record ImportStatePassthroughID writes for the identifier given.
ImportRecord(id) == [ NoRecord EXCEPT !.id = id ]

\* ImportState: the identifier given becomes the record's id; no remote call.
ImportState(i, id) ==
  /\ Ready(i) /\ state[i] = NoRecord /\ ops < MaxOps
  /\ inv' = [ inv EXCEPT ![i] = Returned(Begin("ImportState", NoPlan, NoRecord, Null, Null)) ]
  /\ state' = [ state EXCEPT ![i] = ImportRecord(id) ]
  /\ ops' = ops + 1
  /\ UNCHANGED << jobs, dsInv, dsState, now, oob, codec >>

\* A handler returns to the host: its request and response are gone.
Return(i) ==
  /\ inv[i].pc = "done"
  /\ inv' = [ inv EXCEPT ![i] = IdleInv ]
  /\ UNCHANGED << jobs, state, dsInv, dsState, now, ops, oob, codec >>

(***************************************************************************)
(* Actions of the data-source Read                                         *)
(***************************************************************************)
\* The identifier check and the GetJob call.
DSRead(config) ==
  /\ DSReady /\ ops < MaxOps
  /\ LET jobName == DSJobName(config)
         c == [ IdleDSInv EXCEPT !.pc = "start", !.config = config, !.jobName = jobName ]
     IN  IF jobName = Null
           THEN dsInv' = Failed(c, "Missing Identifier")
           ELSE \E res \in GetJobResults(jobName) :
                  dsInv' = DSGotJob(Called(c, "GetJob", res.err), res)
  /\ dsState' = NoResult
  /\ ops' = ops + 1
  /\ UNCHANGED << jobs, state, inv, now, oob, codec >>

\* The job.GetConfig call and the extractions.
DSGetConfig ==
  /\ dsInv.pc = "GetConfig"
  /\ \E res \in GetJobConfigResults(dsInv.jobName) :
       LET out == DSGotConfig(Called(dsInv, "GetConfig", res.err), dsState, res)
       IN  /\ dsInv' = out.inv
           /\ dsState' = out.state
  /\ UNCHANGED << jobs, state, inv, now, ops, oob, codec >>

\* The job.GetLastCompletedBuild call and the write of the result.
DSGetLastCompletedBuild ==
  /\ dsInv.pc = "GetLastCompletedBuild"
  /\ \E res \in GetLastCompletedBuildResults(dsInv.jobName) :
       LET out == DSGotBuild(Called(dsInv, "GetLastCompletedBuild", res.err), res)
       IN  /\ dsInv' = out.inv
           /\ dsState' = out.state
  /\ UNCHANGED << jobs, state, inv, now, ops, oob, codec >>

\* The data-source Read returns to the host, which takes the result.
DSReturn ==
  /\ dsInv.pc = "done"
  /\ dsInv' = IdleDSInv
  /\ dsState' = NoResult
  /\ UNCHANGED << jobs, state, inv, now, ops, oob, codec >>

(***************************************************************************)
(* The environment: other users of the server; time passes between two     *)
(* readings of the clock                                                   *)
(***************************************************************************)
\* Another user deletes a job.
OOBDelete(n) ==
  /\ oob < MaxOOB /\ jobs[n] # NoJob
  /\ jobs' = [ jobs EXCEPT ![n] = NoJob ]
  /\ oob' = oob + 1
  /\ UNCHANGED << state, inv, dsInv, dsState, now, ops, codec >>

\* Another user creates a job, or reconfigures an existing one.
OOBConfigure(n, doc) ==
  /\ oob < MaxOOB
  /\ jobs' = [ jobs EXCEPT ![n] = [ @ EXCEPT !.name = n, !.config = doc,
                                             !.description = ReportedDescription(doc) ] ]
  /\ oob' = oob + 1
  /\ UNCHANGED << state, inv, dsInv, dsState, now, ops, codec >>

\* A build of a job completes.
OOBBuild(n) ==
  /\ oob < MaxOOB /\ jobs[n] # NoJob /\ jobs[n].buildNumber = 0
  /\ jobs' = [ jobs EXCEPT ![n] = [ @ EXCEPT !.buildNumber = 1, !.buildResult = BuildResult,
                                             !.buildDuration = BuildDuration ] ]
  /\ oob' = oob + 1
  /\ UNCHANGED << state, inv, dsInv, dsState, now, ops, codec >>

(***************************************************************************)
(* Specifications                                                          *)
(***************************************************************************)
Base ==
  /\ jobs = [ n \in Names |-> NoJob ]
  /\ state = [ i \in Insts |-> NoRecord ]
  /\ inv = [ i \in Insts |-> IdleInv ]
  /\ dsInv = IdleDSInv
  /\ dsState = NoResult
  /\ now = 0
  /\ ops = 0
  /\ oob = 0

Init == Base /\ codec = IdleCodec

\* No handler is running.
Quiet == dsInv.pc = "idle" /\ \A i \in Insts : inv[i].pc = "idle"

\* One resource instance, the data source and the other users of the server.
\* The host runs one handler at a time (each handler is one synchronous
\* call sequence); the other users act between any two remote calls.
Next ==
  \/ Quiet /\ \E plan \in Plans : Create(1, plan)
  \/ CreateCreateJob(1)
  \/ CreateGetJob(1)
  \/ Quiet /\ Read(1)
  \/ ReadGetJobConfig(1)
  \/ Quiet /\ \E plan \in Plans : Update(1, plan)
  \/ UpdateGetJob(1)
  \/ Quiet /\ Delete(1)
  \/ DeleteDeleteJob(1)
  \/ Quiet /\ \E id \in Names : ImportState(1, id)
  \/ Return(1)
  \/ Quiet /\ \E config \in DSConfigs : DSRead(config)
  \/ DSGetConfig
  \/ DSGetLastCompletedBuild
  \/ DSReturn
  \/ \E n \in Names : OOBDelete(n)
  \/ \E n \in Names, doc \in ForeignDocs : OOBConfigure(n, doc)
  \/ \E n \in Names : OOBBuild(n)

Spec == Init /\ [][Next]_vars

\* The codec on every description and script of at most MaxFrags fragments.
CodecInit ==
  /\ Base
  /\ \E d \in FragmentStrings(MaxFrags), s \in FragmentStrings(MaxFrags) :
       codec = [ IdleCodec EXCEPT !.phase = "input", !.description = d, !.groovyScript = s ]

CodecNext == CodecBuild \/ CodecExtract

CodecSpec == CodecInit /\ [][CodecNext]_vars

\* The extractors on every document of at most MaxDocFrags fragments.
DecodeInit ==
  /\ Base
  /\ \E doc \in FragmentStrings(MaxDocFrags) :
       codec = [ IdleCodec EXCEPT !.phase = "built", !.xml = doc ]

DecodeNext == CodecExtract

DecodeSpec == DecodeInit /\ [][DecodeNext]_vars

\* Plans whose description or script holds a delimiter of the document.
WriteDescriptions == { Null, << "d" >>, scriptStart, descEnd }
WriteScripts == { << "s" >>, scriptEnd }
WritePlans ==
  [ name : { << "a" >> }, description : WriteDescriptions, groovy_script : WriteScripts ]

\* One resource instance that is created, updated and read, on a server
\* nobody else uses.
WriteReadNext ==
  \/ Quiet /\ \E plan \in WritePlans : Create(1, plan)
  \/ CreateCreateJob(1)
  \/ CreateGetJob(1)
  \/ Quiet /\ \E plan \in WritePlans : Update(1, plan)
  \/ UpdateGetJob(1)
  \/ Quiet /\ Read(1)
  \/ ReadGetJobConfig(1)
  \/ Return(1)

WriteReadSpec == Init /\ [][WriteReadNext]_vars

\* Two resource instances whose Creates the host runs concurrently: the
\* remote calls of the two invocations interleave in any order.
ConcurrentNext ==
  \E i \in Insts :
    \/ \E plan \in Plans : Create(i, plan)
    \/ CreateCreateJob(i)
    \/ CreateGetJob(i)
    \/ Return(i)

ConcurrentSpec == Init /\ [][ConcurrentNext]_vars

(***************************************************************************)
(* Properties                                                              *)
(***************************************************************************)
\* The harness has a description and a script free of the closing delimiter
\* of their own section, and both extractors have run on the document.
CodecExtractedFree ==
  /\ codec.phase = "extracted"
  /\ ~Contains(codec.description, descEnd)
  /\ ~Contains(codec.groovyScript, scriptEnd)

\* C1: round trip of the codec.  For every description without
\* "</description>" and every script without "]]></script>", the script
\* extractor returns exactly the script and the description extractor exactly
\* the description, both without error, on the document built from the two.
C1_RoundTrip ==
  CodecExtractedFree =>
    /\ codec.script = Ok(codec.groovyScript)
    /\ codec.desc = Ok(codec.description)

\* The operations of the remote calls made, in order.
CallOps(calls) == [ k \in 1..Len(calls) |-> calls[k].op ]

\* Some remote call of calls, other than one of the operations in optional, failed.
AnyFailed(calls, optional) ==
  \E k \in 1..Len(calls) : calls[k].err # "nil" /\ calls[k].op \notin optional

\* Instance i has finished a run of handler op.
Finished(i, op) == inv[i].op = op /\ inv[i].pc = "done"

\* Instance i has finished a run of handler op whose existence check
\* succeeded and answered exists.
FinishedChecked(i, op, exists) ==
  /\ Finished(i, op)
  /\ inv[i].calls[1] = Call("JobExists", inv[i].jobName, "nil")
  /\ inv[i].exists = exists

\* C2: Create's idempotency guard.  A Create whose existence check reports
\* the job present ends with the Job Already Exists error, has made no remote
\* call but the existence check (so no CreateJob), and has written no record.
C2_CreateGuard ==
  \A i \in Insts :
    FinishedChecked(i, "Create", TRUE) =>
      /\ HasSummary(inv[i].diags, "Job Already Exists")
      /\ HasError(inv[i].diags)
      /\ CallOps(inv[i].calls) = << "JobExists" >>
      /\ state[i] = NoRecord

\* A retried Create hits the guard on the job an earlier Create made: the
\* server still holds the document that the same plan builds.
C2_Witness ==
  /\ FinishedChecked(1, "Create", TRUE)
  /\ HasSummary(inv[1].diags, "Job Already Exists")
  /\ jobs[inv[1].jobName].config = inv[1].configXML

\* C3: no partial record write.  In Create, Read and Update the record differs
\* from the prior state only once the handler has ended with all its remote
\* calls made and none failed, and a failed remote call ends the handler with
\* an error and the record as it was; the data-source Read writes its result
\* only after GetJob and GetConfig succeeded, and a failure of either ends it
\* with an error and no result.
C3_NoPartialWrite ==
  /\ \A i \in Insts :
        inv[i].op \in { "Create", "Read", "Update" } =>
          /\ AnyFailed(inv[i].calls, { }) =>
                /\ inv[i].pc = "done"
                /\ HasError(inv[i].diags)
                /\ state[i] = inv[i].prior
          /\ state[i] # inv[i].prior =>
                /\ inv[i].pc = "done"
                /\ ~AnyFailed(inv[i].calls, { })
                /\ CallOps(inv[i].calls) =
                      ( CASE inv[i].op = "Create" -> << "JobExists", "CreateJob", "GetJob" >>
                          [] inv[i].op = "Update" -> << "UpdateJob", "GetJob" >>
                          [] inv[i].removed -> << "JobExists" >>
                          [] OTHER -> << "JobExists", "GetJobConfig" >> )
  /\ AnyFailed(dsInv.calls, { "GetLastCompletedBuild" }) =>
        /\ dsInv.pc = "done"
        /\ HasError(dsInv.diags)
        /\ dsState = NoResult
  /\ dsState # NoResult =>
        /\ dsInv.pc = "done"
        /\ Len(dsInv.calls) >= 2
        /\ dsInv.calls[1] = Call("GetJob", dsInv.jobName, "nil")
        /\ dsInv.calls[2] = Call("GetConfig", dsInv.jobName, "nil")

\* An Update whose UpdateJob succeeded and whose read-back GetJob failed.
C3_Witness ==
  /\ Finished(1, "Update")
  /\ Len(inv[1].calls) = 2
  /\ inv[1].calls[1].err = "nil"
  /\ inv[1].calls[2].err # "nil"
  /\ jobs[inv[1].jobName].config = inv[1].configXML
  /\ state[1] = inv[1].prior

\* C4: drift removal.  A Read whose existence check answers that the job is
\* absent removes the record, adds no diagnostic and makes no further remote
\* call.
C4_DriftRemoval ==
  \A i \in Insts :
    FinishedChecked(i, "Read", FALSE) =>
      /\ inv[i].removed
      /\ state[i] = NoRecord
      /\ inv[i].diags = << >>
      /\ CallOps(inv[i].calls) = << "JobExists" >>

\* A Read of a record with all its fields set found the job gone.
C4_Witness ==
  /\ FinishedChecked(1, "Read", FALSE)
  /\ inv[1].prior.last_updated # Null
  /\ state[1] = NoRecord

\* C5: Delete's idempotency.  A Delete whose existence check answers that the
\* job is absent succeeds with no diagnostic (the host drops the record) and
\* makes no DeleteJob call.
C5_DeleteIdempotent ==
  \A i \in Insts :
    FinishedChecked(i, "Delete", FALSE) =>
      /\ inv[i].diags = << >>
      /\ CallOps(inv[i].calls) = << "JobExists" >>
      /\ state[i] = NoRecord

\* A Delete found the job already gone.
C5_Witness ==
  /\ FinishedChecked(1, "Delete", FALSE)
  /\ inv[1].prior # NoRecord
  /\ state[1] = NoRecord

\* Instance i has finished a run of handler op without an error diagnostic
\* after its read-back GetJob.
ReadBack(i, op) ==
  /\ Finished(i, op)
  /\ ~HasError(inv[i].diags)
  /\ inv[i].job # NoJob

\* C6 as stated: after a successful Create the record's description and script
\* are both those of the plan, whatever description the server reports on
\* read-back.
C6_Original ==
  \A i \in Insts :
    ReadBack(i, "Create") =>
      /\ state[i].description = ValueString(inv[i].plan.description)
      /\ state[i].groovy_script = ValueString(inv[i].plan.groovy_script)

\* C6 as amended: after a successful Create the record's script is the plan's
\* script, and its description, name and id are the description and the name
\* the server reports on read-back.
C6_CreateRecord ==
  \A i \in Insts :
    ReadBack(i, "Create") =>
      /\ state[i].groovy_script = ValueString(inv[i].plan.groovy_script)
      /\ state[i].description = inv[i].job.description
      /\ state[i].name = inv[i].job.name
      /\ state[i].id = inv[i].job.name

\* A Create succeeded although the server reports another description than
\* the plan's.
C6_Witness ==
  /\ ReadBack(1, "Create")
  /\ inv[1].job.description # ValueString(inv[1].plan.description)
  /\ state[1].description = inv[1].job.description

\* Instance i has finished a Read that fetched a document with a description
\* section and no script section.
ReadNoScript(i) ==
  /\ Finished(i, "Read")
  /\ Len(inv[i].calls) = 2
  /\ inv[i].calls[2] = Call("GetJobConfig", inv[i].jobName, "nil")
  /\ extractDescriptionFromXML(inv[i].configXML).err = "nil"
  /\ extractGroovyScriptFromXML(inv[i].configXML).err # "nil"

\* C7: partial decode failure in Read.  When the fetched document has a
\* description section and no extractable script section, Read still writes
\* the record: script empty, description the text of the description section,
\* name equal to the id, the other fields as they were, and a script
\* extraction diagnostic is attached.
C7_PartialDecode ==
  \A i \in Insts :
    ReadNoScript(i) =>
      /\ state[i].groovy_script = << >>
      /\ state[i].description = extractDescriptionFromXML(inv[i].configXML).val
      /\ state[i].name = state[i].id
      /\ state[i].id = inv[i].prior.id
      /\ HasSummary(inv[i].diags, "Groovy Script Extraction Error")
      /\ ~HasSummary(inv[i].diags, "Description Extraction Error")

\* A Read of a record holding a script fetched the document
\* <description>d</description> and wrote an empty script and description d.
C7_Witness ==
  /\ ReadNoScript(1)
  /\ inv[1].configXML = DocNoScript
  /\ inv[1].prior.groovy_script \in Scripts
  /\ state[1].groovy_script = << >>
  /\ state[1].description = << "d" >>

\* The diagnostics the extractions add.
ExtractionSummaries == { "Groovy Script Extraction Error", "Description Extraction Error" }

\* C8: a parse error of the codec is never an error-severity diagnostic, in
\* Read and in the data-source Read: every extraction diagnostic is a warning.
C8_ParseErrorIsWarning ==
  /\ \A i \in Insts : \A k \in 1..Len(inv[i].diags) :
        inv[i].diags[k].summary \in ExtractionSummaries =>
          inv[i].diags[k].severity = "warning"
  /\ \A k \in 1..Len(dsInv.diags) :
        dsInv.diags[k].summary \in ExtractionSummaries =>
          dsInv.diags[k].severity = "warning"

\* C9: Update addresses the remote job by the prior state's id only: every
\* remote call of an Update names state.id, and an Update that has ended
\* without a failed call made exactly UpdateJob and GetJob.
C9_UpdateUsesStateId ==
  \A i \in Insts :
    inv[i].op = "Update" =>
      /\ \A k \in 1..Len(inv[i].calls) :
            inv[i].calls[k].name = ValueString(inv[i].prior.id)
      /\ ReadBack(i, "Update") => CallOps(inv[i].calls) = << "UpdateJob", "GetJob" >>

\* An Update whose plan names another job than the prior state's id has
\* made both its remote calls.
C9_Witness ==
  /\ ReadBack(1, "Update")
  /\ ValueString(inv[1].plan.name) # ValueString(inv[1].prior.id)
  /\ Len(inv[1].calls) = 2

\* C10: effect of a successful Update on the record.  The description is the
\* one the server reports on read-back, the script is the plan's script,
\* last_updated is the time of the Update, and id and name are those of the
\* prior state.
C10_UpdateEffect ==
  \A i \in Insts :
    ReadBack(i, "Update") =>
      /\ state[i].description = inv[i].job.description
      /\ state[i].groovy_script = ValueString(inv[i].plan.groovy_script)
      /\ state[i].last_updated = RFC3339(now)
      /\ state[i].id = inv[i].prior.id
      /\ state[i].name = inv[i].prior.name

\* An Update changed the script and restamped the record, and its plan names
\* another job than the record.
C10_Witness ==
  /\ ReadBack(1, "Update")
  /\ state[1].groovy_script # inv[1].prior.groovy_script
  /\ state[1].last_updated # inv[1].prior.last_updated
  /\ inv[1].plan.name # inv[1].prior.name

\* Instance i has finished a Read whose two remote calls succeeded, so that
\* it wrote the record.
ReadWrote(i) ==
  /\ Finished(i, "Read")
  /\ Len(inv[i].calls) = 2
  /\ inv[i].calls[2].err = "nil"

\* C11: Read looks the job up by the record's id, never by its name.  Every
\* remote call of a Read names the id of the prior state; a Read that wrote
\* the record called JobExists and GetJobConfig, and set the name to that id.
C11_ReadUsesId ==
  \A i \in Insts :
    inv[i].op = "Read" =>
      /\ \A k \in 1..Len(inv[i].calls) :
            inv[i].calls[k].name = ValueString(inv[i].prior.id)
      /\ ReadWrote(i) =>
            /\ CallOps(inv[i].calls) = << "JobExists", "GetJobConfig" >>
            /\ state[i].name = inv[i].prior.id
            /\ state[i].id = inv[i].prior.id

\* A Read of an imported record, whose name is not its id, wrote the record.
C11_Witness ==
  /\ ReadWrote(1)
  /\ inv[1].prior.name # inv[1].prior.id
  /\ state[1].name = inv[1].prior.id

\* C12: the record invariant id = name.  A record is held with its name equal
\* to its id, or with no name yet (imported and not read since); the record of
\* a successful Create and the record a Read wrote have id = name, and a
\* successful Update keeps the equality of the prior state.
C12_IdEqualsName ==
  \A i \in Insts :
    /\ state[i] # NoRecord => state[i].name \in { state[i].id, Null }
    /\ ReadBack(i, "Create") => state[i].id = state[i].name
    /\ ReadWrote(i) => state[i].id = state[i].name
    /\ ReadBack(i, "Update") =>
         ( inv[i].prior.id = inv[i].prior.name => state[i].id = state[i].name )

\* An Update whose plan names another job kept id = name.
C12_Witness ==
  /\ ReadBack(1, "Update")
  /\ inv[1].prior.id = inv[1].prior.name
  /\ inv[1].plan.name # inv[1].prior.name
  /\ state[1].id = state[1].name

\* C13: the lifecycle of the record of one resource instance.  In every step,
\* a record comes into existence only as a Create ends without error or by an
\* ImportState; it is removed only as a Delete ends without error or as a Read
\* ends on an existence check that found the job gone; it is otherwise changed
\* only as a Read or an Update ends with all its remote calls succeeded.  So
\* an Update or a Read that found the job never removes the record, and an
\* operation that failed neither creates nor removes it.
C13_Lifecycle ==
  [][ \A i \in Insts :
        /\ ( state[i] = NoRecord /\ state'[i] # NoRecord ) =>
             \/ /\ inv'[i].op = "Create"
                /\ inv'[i].pc = "done"
                /\ ~HasError(inv'[i].diags)
             \/ inv'[i].op = "ImportState"
        /\ ( state[i] # NoRecord /\ state'[i] = NoRecord ) =>
             \/ /\ inv'[i].op = "Delete"
                /\ inv'[i].pc = "done"
                /\ ~HasError(inv'[i].diags)
             \/ /\ inv'[i].op = "Read"
                /\ inv'[i].pc = "done"
                /\ ~HasError(inv'[i].diags)
                /\ inv'[i].calls = << Call("JobExists", inv'[i].jobName, "nil") >>
                /\ ~inv'[i].exists
        /\ ( state[i] # NoRecord /\ state'[i] # NoRecord /\ state'[i] # state[i] ) =>
             /\ inv'[i].op \in { "Read", "Update" }
             /\ inv'[i].pc = "done"
             /\ ~AnyFailed(inv'[i].calls, { })
             /\ Len(inv'[i].calls) = 2
    ]_vars

\* A record that a Create wrote has been removed by a Delete whose DeleteJob
\* succeeded.
C13_Witness ==
  /\ Finished(1, "Delete")
  /\ CallOps(inv[1].calls) = << "JobExists", "DeleteJob" >>
  /\ ~AnyFailed(inv[1].calls, { })
  /\ inv[1].prior.last_updated # Null
  /\ state[1] = NoRecord

\* The data-source Read has ended.
DSFinished == dsInv.pc = "done"

\* C14: the identifier requirement of the data source.  A data-source Read
\* given neither id nor name ends with the Missing Identifier error, writes no
\* result and makes no remote call.
C14_MissingIdentifier ==
  ( DSFinished /\ dsInv.config.id = Null /\ dsInv.config.name = Null ) =>
    /\ HasSummary(dsInv.diags, "Missing Identifier")
    /\ HasError(dsInv.diags)
    /\ dsState = NoResult
    /\ dsInv.calls = << >>

\* A data-source Read without identifier has ended while the server holds a job.
C14_Witness ==
  /\ DSFinished
  /\ dsInv.config = [ id |-> Null, name |-> Null ]
  /\ HasSummary(dsInv.diags, "Missing Identifier")
  /\ \E n \in Names : jobs[n] # NoJob

\* The data-source Read has ended on a GetJob that found no job of the name.
DSNotFound ==
  /\ DSFinished
  /\ Len(dsInv.calls) >= 1
  /\ dsInv.calls[1] = Call("GetJob", dsInv.jobName, "404")

\* C15: strictness of the data source.  A data-source Read of a name whose job
\* does not exist ends with an error, without result and without further
\* remote call, whereas a resource Read that finds the job missing ends with
\* the record removed and no error.
C15_DataSourceStrict ==
  /\ DSNotFound =>
       /\ HasError(dsInv.diags)
       /\ HasSummary(dsInv.diags, "Jenkins Job Not Found")
       /\ dsState = NoResult
       /\ Len(dsInv.calls) = 1
  /\ \A i \in Insts :
       FinishedChecked(i, "Read", FALSE) =>
         /\ ~HasError(inv[i].diags)
         /\ inv[i].removed

\* A data-source Read by name found no such job.
C15_Witness ==
  /\ DSNotFound
  /\ dsInv.config.name \in Names
  /\ jobs[dsInv.jobName] = NoJob
  /\ dsState = NoResult

\* The data-source Read has ended after GetJob and GetConfig succeeded.
DSFetched ==
  /\ DSFinished
  /\ Len(dsInv.calls) >= 2
  /\ dsInv.calls[2] = Call("GetConfig", dsInv.jobName, "nil")

\* The data-source Read has ended on a GetLastCompletedBuild call that
\* returned err.
DSBuildCall(err) ==
  /\ DSFetched
  /\ Len(dsInv.calls) = 3
  /\ dsInv.calls[3] = Call("GetLastCompletedBuild", dsInv.jobName, err)

\* C16: the last build in the data source.  A data-source Read that fetched
\* the job and its document calls GetLastCompletedBuild exactly when the job
\* fetched reports a last completed build number above 0.  When that call
\* fails the result is still written, with status "" and duration 0 and no
\* diagnostic but those of the extractions; when it succeeds the status and
\* the duration are the build's.
C16_LastBuild ==
  DSFetched =>
    /\ dsState # NoResult
    /\ ( \E k \in 1..Len(dsInv.calls) : dsInv.calls[k].op = "GetLastCompletedBuild" )
         <=> dsInv.job.buildNumber > 0
    /\ Len(dsInv.calls) = IF dsInv.job.buildNumber > 0 THEN 3 ELSE 2
    /\ \A k \in 1..Len(dsInv.diags) : dsInv.diags[k].summary \in ExtractionSummaries
    /\ ( dsInv.script.err = "nil" /\ dsInv.description.err = "nil" ) => dsInv.diags = << >>
    /\ dsInv.job.buildNumber = 0 =>
         dsState.last_build_status = << >> /\ dsState.last_build_duration = 0
    /\ \A err \in { "transport", "404" } :
         DSBuildCall(err) =>
           dsState.last_build_status = << >> /\ dsState.last_build_duration = 0
    /\ DSBuildCall("nil") =>
         /\ dsState.last_build_status = BuildResult
         /\ dsState.last_build_duration = BuildDuration

\* A data-source Read of a job with a completed build wrote its result
\* although GetLastCompletedBuild failed.
C16_Witness ==
  /\ DSBuildCall("transport")
  /\ dsInv.job.buildNumber > 0
  /\ ~HasError(dsInv.diags)
  /\ dsState.id = dsInv.job.name
  /\ dsState.last_build_status = << >>

\* C17: ImportState.  A step in which an ImportState runs leaves the server
\* untouched and makes no remote call, and the record it writes has the
\* identifier given as its id, verbatim, and every other attribute null.
C17_ImportEffect ==
  [][ \A i \in Insts :
        /\ ( inv[i].pc = "idle" /\ inv'[i].op = "ImportState" ) =>
             /\ jobs' = jobs
             /\ inv'[i].calls = << >>
             /\ inv'[i].diags = << >>
             /\ inv'[i].pc = "done"
             /\ state'[i].id \in Names
             /\ state'[i] = [ NoRecord EXCEPT !.id = state'[i].id ]
        /\ \A id \in Names : ImportState(i, id) => state'[i].id = id
    ]_vars

\* An ImportState has ended: the record has an id and no name yet, while the
\* server holds no job of that name.
C17_Witness ==
  /\ Finished(1, "ImportState")
  /\ inv[1].calls = << >>
  /\ state[1].id \in Names
  /\ state[1].name = Null
  /\ jobs[state[1].id] = NoJob

\* The remote calls of an invocation c: no operation is called twice, only the
\* last call can have failed, and a failed call has ended the invocation.
NoRetry(c) ==
  /\ \A j, k \in 1..Len(c.calls) : j # k => c.calls[j].op # c.calls[k].op
  /\ \A k \in 1..Len(c.calls) :
       c.calls[k].err # "nil" => k = Len(c.calls) /\ c.pc = "done"

\* C18: no retry, and fail fast.  Within one invocation of Create, Read,
\* Update, Delete or the data-source Read each remote operation is called at
\* most once, and no remote call follows a failed one: the failed call is the
\* last and the invocation has ended, with an error diagnostic unless the call
\* was the data source's GetLastCompletedBuild.
C18_NoRetryFailFast ==
  /\ \A i \in Insts :
       /\ NoRetry(inv[i])
       /\ AnyFailed(inv[i].calls, { }) => HasError(inv[i].diags)
  /\ NoRetry(dsInv)
  /\ AnyFailed(dsInv.calls, { "GetLastCompletedBuild" }) => HasError(dsInv.diags)

\* A Create has ended on a failed CreateJob, without reading the job back.
C18_Witness ==
  /\ Finished(1, "Create")
  /\ CallOps(inv[1].calls) = << "JobExists", "CreateJob" >>
  /\ inv[1].calls[2].err # "nil"
  /\ HasSummary(inv[1].diags, "Jenkins Job Creation Error")

\* C19: failures of Delete.  A Delete whose existence check failed ends with
\* an error, the record kept and no DeleteJob call.  A Delete whose existence
\* check found the job calls DeleteJob exactly once; a failure of that call,
\* also a 404 because the job is gone since the check, ends the Delete with
\* the Jenkins Job Deletion Error and the record kept, and its success ends
\* the Delete with no diagnostic.
C19_DeleteFailure ==
  \A i \in Insts :
    /\ ( Finished(i, "Delete") /\ inv[i].calls[1].err # "nil" ) =>
         /\ HasError(inv[i].diags)
         /\ CallOps(inv[i].calls) = << "JobExists" >>
         /\ state[i] = inv[i].prior
    /\ FinishedChecked(i, "Delete", TRUE) =>
         /\ CallOps(inv[i].calls) = << "JobExists", "DeleteJob" >>
         /\ inv[i].calls[2].err # "nil" =>
              /\ HasError(inv[i].diags)
              /\ HasSummary(inv[i].diags, "Jenkins Job Deletion Error")
              /\ state[i] = inv[i].prior
         /\ inv[i].calls[2].err = "nil" =>
              /\ inv[i].diags = << >>
              /\ state[i] = NoRecord

\* A Delete found the job, which was gone when DeleteJob was called.
C19_Witness ==
  /\ FinishedChecked(1, "Delete", TRUE)
  /\ inv[1].calls[2] = Call("DeleteJob", inv[1].jobName, "404")
  /\ HasSummary(inv[1].diags, "Jenkins Job Deletion Error")
  /\ state[1] # NoRecord

\* substr occurs in s at the 0-based position p.
OccursAt(s, substr, p) ==
  /\ p >= 0
  /\ p + Len(substr) <= Len(s)
  /\ \A k \in 1..Len(substr) : s[p + k] = substr[k]

\* The 0-based positions just after the first occurrence of from in s; empty
\* when from does not occur.
AfterFirst(s, from) ==
  { p + Len(from) : p \in { q \in 0..Len(s) :
                              /\ OccursAt(s, from, q)
                              /\ \A r \in 0..(q - 1) : ~OccursAt(s, from, r) } }

\* r is what an extractor with the delimiters from and to owes on document s:
\* the text between the end of the first from and the first to that begins at
\* or after that end, and an error exactly when there is no such pair.
Extracted(s, from, to, r) ==
  LET ends == { [ a |-> a, b |-> b ] : a \in AfterFirst(s, from), b \in 0..Len(s) }
      pairs == { e \in ends :
                   /\ e.b >= e.a
                   /\ OccursAt(s, to, e.b)
                   /\ \A r2 \in e.a..(e.b - 1) : ~OccursAt(s, to, r2) }
  IN  IF pairs = { }
        THEN r.err # "nil" /\ r.val = << >>
        ELSE r.err = "nil" /\ \E e \in pairs : r.val = [ k \in 1..(e.b - e.a) |-> s[e.a + k] ]

\* C20: semantics of the decoder.  On every document each extractor returns
\* the text strictly between the first occurrence of its start delimiter and
\* the first occurrence of its end delimiter at or after the end of that start
\* delimiter, and fails exactly when there is no such pair; the error of the
\* script extractor is never the error of the description extractor.
C20_DecoderSemantics ==
  codec.phase = "extracted" =>
    /\ Extracted(codec.xml, scriptStart, scriptEnd, codec.script)
    /\ Extracted(codec.xml, descStart, descEnd, codec.desc)
    /\ ( codec.script.err # "nil" /\ codec.desc.err # "nil" ) =>
         codec.script.err # codec.desc.err

\* The script extractor succeeded on a document that has an end delimiter
\* before its first start delimiter, and the description extractor failed.
C20_Witness ==
  /\ codec.phase = "extracted"
  /\ codec.script.err = "nil"
  /\ Index(codec.xml, scriptEnd) < Index(codec.xml, scriptStart)
  /\ codec.desc.err # "nil"

\* The record rec is one that a successful Create or Update submitting the
\* description d and the script s leaves.
WrittenBy(rec, d, s) ==
  /\ rec.id # Null
  /\ rec.groovy_script = s
  /\ rec.description = ReportedDescription(buildPipelineConfigXML(d, s))

\* C21: write-then-Read stability.  When the record is the one a successful
\* Create or Update submitting description d and script s left, the server
\* holds the submitted document unchanged, d has no "</description>" and s no
\* "]]></script>", a Read whose remote calls succeed does not remove the
\* record and returns d as the description and s as the script.
C21_WriteThenRead ==
  \A pd \in WriteDescriptions, s \in WriteScripts :
    LET d == ValueString(pd) IN
    ( /\ Finished(1, "Read")
      /\ ~AnyFailed(inv[1].calls, { })
      /\ WrittenBy(inv[1].prior, d, s)
      /\ JobAt(inv[1].jobName).config = buildPipelineConfigXML(d, s)
      /\ ~Contains(d, descEnd)
      /\ ~Contains(s, scriptEnd) )
    => /\ ~inv[1].removed
       /\ state[1].description = d
       /\ state[1].groovy_script = s

\* Instance i has finished a Create whose CreateJob succeeded and whose
\* read-back GetJob failed.
CreateOrphaned(i) ==
  /\ Finished(i, "Create")
  /\ CallOps(inv[i].calls) = << "JobExists", "CreateJob", "GetJob" >>
  /\ inv[i].calls[2].err = "nil"
  /\ inv[i].calls[3].err # "nil"

\* C22: orphan after an ambiguous Create failure.  A Create whose CreateJob
\* succeeded and whose read-back GetJob failed ends with an error and no
\* record, while the server holds the job (unless another user removed it).
\* Every Create started for a name whose job the server holds, a retry of the
\* failed Create included, ends at the existence check: no CreateJob and no
\* other remote call, server untouched, no record, an error, and this error
\* is Job Already Exists whenever the existence check answered.
C22_OrphanBlocksRetry ==
  [][ /\ CreateOrphaned(1)' =>
           /\ HasError(inv'[1].diags)
           /\ state'[1] = NoRecord
           /\ ( oob' = 0 => JobAt(inv[1].jobName)' # NoJob )
      /\ \A plan \in Plans :
           ( Create(1, plan) /\ JobAt(plan.name) # NoJob ) =>
             /\ inv'[1].pc = "done"
             /\ CallOps(inv'[1].calls) = << "JobExists" >>
             /\ HasError(inv'[1].diags)
             /\ inv'[1].calls[1].err = "nil" => HasSummary(inv'[1].diags, "Job Already Exists")
             /\ state'[1] = NoRecord
             /\ jobs' = jobs
    ]_vars

\* The retry of a Create that left an orphan: nobody else used the server,
\* no record is held, the server holds the document the same plan builds
\* and the second Create has ended on Job Already Exists.
C22_Witness ==
  /\ Finished(1, "Create")
  /\ HasSummary(inv[1].diags, "Job Already Exists")
  /\ oob = 0
  /\ ops = 2
  /\ state[1] = NoRecord
  /\ JobAt(inv[1].jobName).config = inv[1].configXML

\* Instance i is in, or has finished, a Create for job n whose existence
\* check answered that there is no such job.
PassedCheck(i, n) ==
  /\ inv[i].op = "Create"
  /\ inv[i].jobName = n
  /\ Len(inv[i].calls) >= 1
  /\ inv[i].calls[1].err = "nil"
  /\ ~inv[i].exists

\* C23: concurrent Creates of one name from two resource instances.  The
\* server accepts CreateJob for a name at most once: a job it holds is never
\* replaced by a later CreateJob.  The two instances never both hold a record
\* of the same job, and a record that is written is the one of the invocation
\* whose document the server holds.
C23_ConcurrentCreate ==
  [][ /\ \A n \in Names : jobs[n] # NoJob => jobs'[n] = jobs[n]
      /\ ( state'[1] # NoRecord /\ state'[2] # NoRecord ) => state'[1].id # state'[2].id
      /\ \A i \in Insts :
           state'[i] # NoRecord =>
             /\ state'[i].id \in Names
             /\ jobs'[state'[i].id].config =
                  buildPipelineConfigXML(state'[i].description, state'[i].groovy_script)
      /\ \A n \in Names :
           ( PassedCheck(1, n)' /\ PassedCheck(2, n)' /\ Len(inv'[1].calls) >= 2
             /\ Len(inv'[2].calls) >= 2 ) =>
             ( inv'[1].calls[2].err # "nil" \/ inv'[2].calls[2].err # "nil" )
    ]_vars

\* Both invocations passed the existence check for the same name before
\* either called CreateJob; the first wrote its record and the second ended
\* on the server's rejection of its CreateJob.
C23_Witness ==
  /\ Finished(1, "Create")
  /\ Finished(2, "Create")
  /\ PassedCheck(1, inv[2].jobName)
  /\ PassedCheck(2, inv[1].jobName)
  /\ state[1] # NoRecord
  /\ state[2] = NoRecord
  /\ CallOps(inv[2].calls) = << "JobExists", "CreateJob" >>
  /\ inv[2].calls[2].err = "400"
  /\ HasSummary(inv[2].diags, "Jenkins Job Creation Error")

\* C24: Read removes the record only on its own existence check.  A Read
\* has removed the record only if its existence check, its one remote call,
\* succeeded and answered that the job is absent.  A Read whose existence
\* check answered that the job is present and whose GetJobConfig then failed,
\* as it does when the job was deleted by another user in between, ends
\* with the Jenkins Job Config Read Error, has not removed the record and
\* leaves the record as it was.
C24_ReadRemovesOnlyOnCheck ==
  /\ ( inv[1].op = "Read" /\ ( inv[1].removed \/ state[1] = NoRecord ) ) =>
       /\ inv[1].removed
       /\ state[1] = NoRecord
       /\ inv[1].calls = << Call("JobExists", inv[1].jobName, "nil") >>
       /\ ~inv[1].exists
  /\ ( /\ FinishedChecked(1, "Read", TRUE)
       /\ Len(inv[1].calls) = 2
       /\ inv[1].calls[2].err # "nil" ) =>
       /\ HasError(inv[1].diags)
       /\ HasSummary(inv[1].diags, "Jenkins Job Config Read Error")
       /\ ~inv[1].removed
       /\ state[1] = inv[1].prior
       /\ state[1] # NoRecord

\* Another user deleted the job after the existence check of a Read had
\* found it: GetJobConfig answered 404 and the Read has ended.
C24_Witness ==
  /\ FinishedChecked(1, "Read", TRUE)
  /\ CallOps(inv[1].calls) = << "JobExists", "GetJobConfig" >>
  /\ inv[1].calls[2].err = "404"
  /\ JobAt(inv[1].jobName) = NoJob
  /\ oob = 1

\* C25: lookup precedence of the data source.  A data-source Read given
\* both id and name is not rejected as lacking an identifier; its lookup key
\* is the id and every remote call names the id, whatever the name given; a
\* result it writes has the name the server reports for the job as its id and
\* as its name, not the name given.
C25_LookupPrecedence ==
  ( dsInv.pc # "idle" /\ dsInv.config.id # Null /\ dsInv.config.name # Null ) =>
    /\ ~HasSummary(dsInv.diags, "Missing Identifier")
    /\ dsInv.jobName = dsInv.config.id
    /\ Len(dsInv.calls) >= 1
    /\ \A k \in 1..Len(dsInv.calls) : dsInv.calls[k].name = dsInv.config.id
    /\ dsState # NoResult =>
         /\ dsInv.job # NoJob
         /\ dsState.id = dsInv.job.name
         /\ dsState.name = dsInv.job.name

\* A data-source Read given an id and another name has written its result:
\* the result's name is the job's, not the name given.
C25_Witness ==
  /\ dsInv.pc = "done"
  /\ dsInv.config.id # Null
  /\ dsInv.config.name # Null
  /\ dsInv.config.name # dsInv.config.id
  /\ dsState # NoResult
  /\ dsState.name = dsInv.config.id
  /\ dsState.name # dsInv.config.name

====
